---- MODULE Spec2Model ----
(***************************************************************************)
(* Model of adls_shipments_clt_export.py: the traversal of an ADLS         *)
(* container (date folder / PRO folder / *.json), the extraction of the    *)
(* current terminal from each payload, and the CSV export.                 *)
(*                                                                         *)
(* Python strings the code inspects character by character (folder names,  *)
(* file names, JSON keys) are sequences of one-character strings.  A path  *)
(* is the sequence of its "/"-separated segments, the container first, so  *)
(* that path.split("/")[-1] is the last segment.                           *)
(***************************************************************************)
EXTENDS Integers, Sequences, FiniteSets, TLC

VARIABLES
    pc,             \* position of main / collect_events
    env,            \* os.environ credentials and AZURE_SDK_AVAILABLE
    args,           \* argparse namespace handed to collect_events
    store_io,       \* whether a store call (ls, walk_blobs, open) was made
    date_dirs,      \* sorted (date_dir_uri, dir_date) pairs still to visit
    cur,            \* loop variables: date_dir_uri, dir_date, pro_dir_uri
    pro_dirs,       \* PRO directories of the current date still to visit
    json_files,     \* JSON paths of the current PRO directory still to read
    total_files,    \* collect_events' counter of listed JSON files
    rows,           \* collect_events' accumulated records
    seen,           \* what the store held where the last call looked
    warnings,       \* whether the last step logged a warning
    exc,            \* the exception that ended the run, or "none"
    out_file,       \* the CSV written by main: "missing" or its data rows
    exit_code,      \* main's return value, -1 while running
    fn_in,          \* argument of a helper applied on its own
    fn_out          \* its result

vars == <<pc, env, args, store_io, date_dirs, cur, pro_dirs, json_files,
          total_files, rows, seen, warnings, exc, out_file, exit_code,
          fn_in, fn_out>>

-----------------------------------------------------------------------------
(* Strings                                                                 *)

UpperChars == <<"A","B","C","D","E","F","G","H","I","J","K","L","M",
                "N","O","P","Q","R","S","T","U","V","W","X","Y","Z">>
LowerChars == <<"a","b","c","d","e","f","g","h","i","j","k","l","m",
                "n","o","p","q","r","s","t","u","v","w","x","y","z">>
DigitChars == <<"0","1","2","3","4","5","6","7","8","9">>

\* str.lower(), one character
LowerChar(c) ==
    IF \E i \in 1..26 : UpperChars[i] = c
    THEN LowerChars[CHOOSE i \in 1..26 : UpperChars[i] = c]
    ELSE c

\* str.lower()
Lower(s) == [i \in 1..Len(s) |-> LowerChar(s[i])]

\* str.endswith(suffix)
EndsWith(s, suffix) ==
    /\ Len(s) >= Len(suffix)
    /\ SubSeq(s, Len(s) - Len(suffix) + 1, Len(s)) = suffix

IsDigit(c) == \E i \in 1..10 : DigitChars[i] = c
DigitVal(c) == (CHOOSE i \in 1..10 : DigitChars[i] = c) - 1

\* int(token) of a string of decimal digits
RECURSIVE IntOf(_)
IntOf(s) ==
    IF s = <<>> THEN 0
    ELSE 10 * IntOf(SubSeq(s, 1, Len(s) - 1)) + DigitVal(s[Len(s)])

\* "%0<w>d" % n, as date.isoformat() pads its fields
RECURSIVE ZeroPad(_, _)
ZeroPad(n, w) ==
    IF w <= 1 /\ n < 10 THEN <<DigitChars[n + 1]>>
    ELSE Append(ZeroPad(n \div 10, w - 1), DigitChars[(n % 10) + 1])

Last(s) == s[Len(s)]

-----------------------------------------------------------------------------
(* JSON payloads.  A parsed JSON value is null, a string, a list or an     *)
(* object; an object keeps its keys in insertion order, as a Python dict.  *)
(* Python's None and JSON null are the same value.                         *)

None == [t |-> "null"]
JStr(s) == [t |-> "str", s |-> s]
JList == [t |-> "list"]
JObj(kv) == [t |-> "obj", kv |-> kv]
KV(k, v) == [k |-> k, v |-> v]

IsDict(x) == x.t = "obj"
DictKeys(obj) == {obj.kv[i].k : i \in 1..Len(obj.kv)}
\* k in obj
HasKey(obj, k) == \E i \in 1..Len(obj.kv) : obj.kv[i].k = k
\* obj.get(k)
Get(obj, k) ==
    IF HasKey(obj, k)
    THEN obj.kv[CHOOSE i \in 1..Len(obj.kv) : obj.kv[i].k = k].v
    ELSE None

K_currentTerminal == <<"c","u","r","r","e","n","t","T","e","r","m","i","n","a","l">>
K_currentTermminal == <<"c","u","r","r","e","n","t","T","e","r","m","m","i","n","a","l">>
K_Data == <<"D","a","t","a">>

\* keys = ["currentTerminal", "currentTermminal"]
TerminalKeys == <<K_currentTerminal, K_currentTermminal>>

\* lower_map = {k.lower(): v for k, v in obj.items()}: of the keys that
\* lower to the same string, the one inserted last keeps its value
LowerMapHas(obj, lk) == \E i \in 1..Len(obj.kv) : Lower(obj.kv[i].k) = lk
LowerMapGet(obj, lk) ==
    LET hits == {i \in 1..Len(obj.kv) : Lower(obj.kv[i].k) = lk}
        last == CHOOSE i \in hits : \A j \in hits : j <= i
    IN  obj.kv[last].v

\* A variant of Candidates that tries the nested "Data" object first; C1
\* does not hold of it.
CandidatesDataFirst(payload) ==
    LET data == Get(payload, K_Data)
    IN  IF IsDict(data) THEN <<data, payload>> ELSE <<payload>>

\* candidates = [payload] + ([payload["Data"]] if it is a dict)
Candidates(payload) ==
    LET data == Get(payload, K_Data)
    IN  IF IsDict(data) THEN <<payload, data>> ELSE <<payload>>

\* One pass of the loop body over a candidate: the exact keys in order,
\* then the lower-cased keys in order.  hit = FALSE when the body falls
\* through to the next candidate.
LookupCandidate(obj) ==
    IF HasKey(obj, TerminalKeys[1])
        THEN [hit |-> TRUE, val |-> Get(obj, TerminalKeys[1])]
    ELSE IF HasKey(obj, TerminalKeys[2])
        THEN [hit |-> TRUE, val |-> Get(obj, TerminalKeys[2])]
    ELSE IF LowerMapHas(obj, Lower(TerminalKeys[1]))
        THEN [hit |-> TRUE, val |-> LowerMapGet(obj, Lower(TerminalKeys[1]))]
    ELSE IF LowerMapHas(obj, Lower(TerminalKeys[2]))
        THEN [hit |-> TRUE, val |-> LowerMapGet(obj, Lower(TerminalKeys[2]))]
    ELSE [hit |-> FALSE, val |-> None]

RECURSIVE FirstHit(_, _)
FirstHit(cands, i) ==
    IF i > Len(cands) THEN None
    ELSE IF LookupCandidate(cands[i]).hit THEN LookupCandidate(cands[i]).val
    ELSE FirstHit(cands, i + 1)

\* _extract_current_terminal(payload), payload a dict
ExtractCurrentTerminal(payload) == FirstHit(Candidates(payload), 1)


-----------------------------------------------------------------------------
(* Dates                                                                   *)

Date(y, m, d) == [t |-> "date", y |-> y, m |-> m, d |-> d]

\* date.__lt__
DateLT(a, b) ==
    \/ a.y < b.y
    \/ a.y = b.y /\ a.m < b.m
    \/ a.y = b.y /\ a.m = b.m /\ a.d < b.d

IsLeap(y) == (y % 4 = 0 /\ y % 100 # 0) \/ y % 400 = 0

DaysInMonth(y, m) ==
    IF m = 2 THEN (IF IsLeap(y) THEN 29 ELSE 28)
    ELSE IF m \in {4, 6, 9, 11} THEN 30
    ELSE 31

\* datetime.date(y, m, d) does not raise ValueError
IsValidDate(y, m, d) ==
    /\ y \in 1..9999
    /\ m \in 1..12
    /\ d \in 1..DaysInMonth(y, m)

\* date.isoformat(): YYYY-MM-DD, zero padded
IsoFormat(dt) == ZeroPad(dt.y, 4) \o <<"-">> \o ZeroPad(dt.m, 2) \o <<"-">> \o ZeroPad(dt.d, 2)

AllDigits(s) == \A i \in 1..Len(s) : IsDigit(s[i])

\* the text a "$" anchors at: Python's "$" also matches before one
\* trailing newline
BeforeFinalNewline(s) ==
    IF Len(s) > 0 /\ s[Len(s)] = "\n" THEN SubSeq(s, 1, Len(s) - 1) ELSE s

\* \d{4}-\d{1,2}-\d{1,2} over the whole of s, month of mlen and day of dlen digits
DateDirShape(s, mlen, dlen) ==
    /\ Len(s) = 4 + 1 + mlen + 1 + dlen
    /\ AllDigits(SubSeq(s, 1, 4))
    /\ s[5] = "-"
    /\ AllDigits(SubSeq(s, 6, 5 + mlen))
    /\ s[6 + mlen] = "-"
    /\ AllDigits(SubSeq(s, 7 + mlen, 6 + mlen + dlen))

\* _DATE_DIR_RE.match(name) is not None
DateDirReMatch(name) ==
    \E mlen \in 1..2, dlen \in 1..2 :
        \/ DateDirShape(name, mlen, dlen)
        \/ DateDirShape(BeforeFinalNewline(name), mlen, dlen)

\* dateutil's lexer on digits-digits-digits: the three numeric tokens
\* between the "-" separators, trailing whitespace dropped
DateutilTokens(s) ==
    LET body == BeforeFinalNewline(s)
        p1 == CHOOSE i \in 1..Len(body) :
                 body[i] = "-" /\ \A j \in 1..(i - 1) : body[j] # "-"
        p2 == CHOOSE i \in (p1 + 1)..Len(body) :
                 body[i] = "-" /\ \A j \in (p1 + 1)..(i - 1) : body[j] # "-"
    IN  <<SubSeq(body, 1, p1 - 1), SubSeq(body, p1 + 1, p2 - 1),
          SubSeq(body, p2 + 1, Len(body))>>

\* A variant of DateutilResolveYmd that reads year, day, month (dayfirst);
\* C10 does not hold of it.
DateutilResolveYdm(tokens) ==
    [y |-> IntOf(tokens[1]), m |-> IntOf(tokens[3]), d |-> IntOf(tokens[2])]

\* dateutil's resolve_ymd with a first token of more than two digits (the
\* year, century given) and dayfirst = False: year, month, day in order
DateutilResolveYmd(tokens) ==
    [y |-> IntOf(tokens[1]), m |-> IntOf(tokens[2]), d |-> IntOf(tokens[3])]

\* dateutil.parser.parse(s).date() on digits-digits-digits with a four
\* digit first field; ok = FALSE when it raises (ParserError)
DateutilParse(s) ==
    LET r == DateutilResolveYmd(DateutilTokens(s))
    IN  IF IsValidDate(r.y, r.m, r.d)
        THEN [ok |-> TRUE, date |-> Date(r.y, r.m, r.d)]
        ELSE [ok |-> FALSE, date |-> None]

\* _parse_date_dir(name)
ParseDateDir(name) ==
    IF ~DateDirReMatch(name) THEN None
    ELSE IF DateutilParse(name).ok THEN DateutilParse(name).date
    ELSE None

-----------------------------------------------------------------------------
(* Store listings.  fs.ls(path, detail=True) returns entries with the      *)
(* full path in "name" and "file" or "directory" in "type".                *)

Entry(path, type) == [name |-> path, type |-> type]

\* _abfs_uri(container, root): the container, then the root's segments
AbfsUri(container, root) == <<container>> \o root

\* _iter_date_dirs over the listing of the base uri, in listing order
RECURSIVE IterDateDirs(_)
IterDateDirs(listing) ==
    IF listing = <<>> THEN <<>>
    ELSE LET entry == Head(listing)
             d == ParseDateDir(Last(entry.name))
         IN  (IF entry.type = "directory" /\ d # None
              THEN <<[uri |-> entry.name, date |-> d]>>
              ELSE <<>>) \o IterDateDirs(Tail(listing))


\* sorted(pairs, key=lambda x: x[1]): stable insertion by date
RECURSIVE InsertByDate(_, _)
InsertByDate(sorted, x) ==
    IF sorted = <<>> THEN <<x>>
    ELSE IF DateLT(x.date, Head(sorted).date) THEN <<x>> \o sorted
    ELSE <<Head(sorted)>> \o InsertByDate(Tail(sorted), x)

RECURSIVE SortByDate(_)
SortByDate(pairs) ==
    IF pairs = <<>> THEN <<>>
    ELSE InsertByDate(SortByDate(SubSeq(pairs, 1, Len(pairs) - 1)), Last(pairs))

\* An optional integer argument: None or an int
IntArg(n) == [t |-> "int", n |-> n]
\* "limit and limit > 0"
LimitActive(limit) == limit # None /\ limit.n # 0 /\ limit.n > 0

\* _get_pro_dirs: the directory entries of the listing, cut at pro_limit
RECURSIVE GetProDirsFrom(_, _, _)
GetProDirsFrom(listing, pro_limit, acc) ==
    IF listing = <<>> THEN acc
    ELSE IF Head(listing).type = "directory"
         THEN LET acc2 == Append(acc, Head(listing).name)
              IN  IF LimitActive(pro_limit) /\ Len(acc2) >= pro_limit.n
                  THEN acc2
                  ELSE GetProDirsFrom(Tail(listing), pro_limit, acc2)
         ELSE GetProDirsFrom(Tail(listing), pro_limit, acc)

GetProDirs(listing, pro_limit) == GetProDirsFrom(listing, pro_limit, <<>>)

DotJson == <<".","j","s","o","n">>

\* _get_json_files: the file entries named *.json (any case), cut at file_limit
RECURSIVE GetJsonFilesFrom(_, _, _)
GetJsonFilesFrom(listing, file_limit, acc) ==
    IF listing = <<>> THEN acc
    ELSE IF /\ Head(listing).type = "file"
            /\ EndsWith(Lower(Last(Head(listing).name)), DotJson)
         THEN LET acc2 == Append(acc, Head(listing).name)
              IN  IF LimitActive(file_limit) /\ Len(acc2) >= file_limit.n
                  THEN acc2
                  ELSE GetJsonFilesFrom(Tail(listing), file_limit, acc2)
         ELSE GetJsonFilesFrom(Tail(listing), file_limit, acc)

GetJsonFiles(listing, file_limit) == GetJsonFilesFrom(listing, file_limit, <<>>)

\* container_client.walk_blobs(name_starts_with=date_path + "/", delimiter="/")
\* over the same directory: each entry's name relative to the container, a
\* sub-directory as a prefix whose name ends in "/"
WalkBlobs(listing) ==
    [i \in 1..Len(listing) |->
        [name |-> Tail(listing[i].name),
         slash |-> listing[i].type = "directory"]]

\* the loop over blob_list: prefixes only, "abfs://<container>/" put back
\* in front of the name with its "/" stripped, cut at pro_limit
RECURSIVE SdkProDirsFrom(_, _, _, _)
SdkProDirsFrom(blobs, container, pro_limit, acc) ==
    IF blobs = <<>> THEN acc
    ELSE IF Head(blobs).slash
         THEN LET acc2 == Append(acc, <<container>> \o Head(blobs).name)
              IN  IF Len(acc2) >= pro_limit.n
                  THEN acc2
                  ELSE SdkProDirsFrom(Tail(blobs), container, pro_limit, acc2)
         ELSE SdkProDirsFrom(Tail(blobs), container, pro_limit, acc)

\* ADLSConfig.storage_options: the first credential shape that is set
StorageOptions(e) ==
    IF e.connection_string THEN "connection_string"
    ELSE IF e.account_name /\ e.account_key THEN "account_key"
    ELSE IF e.account_name /\ e.sas_token THEN "sas_token"
    ELSE "ValueError"

\* _get_pro_dirs_optimized: listing is what the store holds under
\* <container>/<date_path>; sdk_raises is whether the SDK calls raise
GetProDirsOptimized(e, container, listing, pro_limit, sdk_raises) ==
    IF ~e.sdk_available \/ ~LimitActive(pro_limit)
    THEN GetProDirs(listing, pro_limit)
    ELSE IF sdk_raises \/ StorageOptions(e) = "ValueError"
    THEN GetProDirs(listing, pro_limit)
    ELSE SdkProDirsFrom(WalkBlobs(listing), container, pro_limit, <<>>)

\* date_path = date_dir_uri.split('/')[-1], then the directory both listing
\* strategies address: f"{STORAGE_PROTOCOL}://{container}/{date_path}"
ListedDateDir(container, date_dir_uri) == <<container, Last(date_dir_uri)>>


-----------------------------------------------------------------------------
(* Records                                                                 *)

K_file_date == <<"_","f","i","l","e","_","d","a","t","e">>
K_pro_folder == <<"_","p","r","o","_","f","o","l","d","e","r">>
K_source_path == <<"_","s","o","u","r","c","e","_","p","a","t","h">>

\* a path as a column value
JPath(p) == [t |-> "path", p |-> p]

\* pd.json_normalize(payload, sep="."): nested objects become dotted keys,
\* every other value is kept as it is
RECURSIVE FlatItems(_, _)
FlatItems(obj, prefix) ==
    UNION { IF IsDict(obj.kv[i].v)
            THEN FlatItems(obj.kv[i].v, prefix \o obj.kv[i].k \o <<".">>)
            ELSE {KV(prefix \o obj.kv[i].k, obj.kv[i].v)}
          : i \in 1..Len(obj.kv) }

\* _normalize(payload): the one flattened record, a dict
Normalize(payload) ==
    LET items == FlatItems(payload, <<>>)
    IN  [k \in {it.k : it \in items} |-> (CHOOSE it \in items : it.k = k).v]

\* rec[k] = v
SetItem(rec, k, v) ==
    [x \in DOMAIN rec \cup {k} |-> IF x = k THEN v ELSE rec[x]]

\* A variant of MakeRecord that keeps a payload's own value under a
\* provenance key (dict.setdefault); C3 does not hold of it.
MakeRecordPayloadWins(payload, dir_date, pro_dir_uri, json_path) ==
    LET rec == Normalize(payload)
        SetDefault(r, k, v) == IF k \in DOMAIN r THEN r ELSE SetItem(r, k, v)
    IN  SetDefault(SetDefault(SetDefault(rec,
            K_file_date, JStr(IsoFormat(dir_date))),
            K_pro_folder, JStr(Last(pro_dir_uri))),
            K_source_path, JPath(json_path))

\* lines 296-299: the record appended for a matching payload
MakeRecord(payload, dir_date, pro_dir_uri, json_path) ==
    SetItem(SetItem(SetItem(Normalize(payload),
        K_file_date, JStr(IsoFormat(dir_date))),
        K_pro_folder, JStr(Last(pro_dir_uri))),
        K_source_path, JPath(json_path))

-----------------------------------------------------------------------------
(* Inputs: the bounded environment the runs are drawn from                 *)

MaxListing == 2     \* entries one store listing returns
MaxCap == 1         \* largest --pro-limit / --files-limit tried
MaxObjects == 2     \* JSON objects listed over one run

Container == <<"c">>
RootDir == <<"r">>
Roots == {<<>>, <<RootDir>>}

T_010_CLT == <<"0","1","0","-","C","L","T">>
T_099_XYZ == <<"0","9","9","-","X","Y","Z">>

\* injective sequences of at most n members of pool
SeqsOver(pool, n) ==
    {q \in UNION {[1..k -> pool] : k \in 0..n} :
        \A i, j \in 1..Len(q) : i # j => q[i] # q[j]}

\* the entries a listing may hold, by last segment and type
Named(seg, type) == [seg |-> seg, type |-> type]

\* a listing of dir: the named entries with their full paths
Under(dir, shape) ==
    [i \in 1..Len(shape) |-> Entry(Append(dir, shape[i].seg), shape[i].type)]

\* what fs.ls may return for the base uri: date folders (padded or not, in
\* or out of range, one that is no calendar date), a stray folder and a
\* file named like a date
RootShapes ==
    SeqsOver({Named(<<"2","0","2","5","-","8","-","1">>, "directory"),
              Named(<<"2","0","2","5","-","0","8","-","0","2">>, "directory"),
              Named(<<"2","0","2","5","-","7","-","3","1">>, "directory"),
              Named(<<"2","0","2","5","-","2","-","3","0">>, "directory"),
              Named(<<"l","o","g","s">>, "directory"),
              Named(<<"2","0","2","5","-","8","-","2">>, "file")}, MaxListing)

\* what the store may hold under a date folder
ProShapes ==
    SeqsOver({Named(<<"P","1">>, "directory"),
              Named(<<"P","2">>, "directory"),
              Named(<<"m",".","j","s","o","n">>, "file")}, MaxListing)

\* what the store may hold under a PRO folder
FileShapes ==
    SeqsOver({Named(<<"a",".","j","s","o","n">>, "file"),
              Named(<<"B",".","J","S","O","N">>, "file"),
              Named(<<"c",".","t","x","t">>, "file"),
              Named(<<"d",".","j","s","o","n">>, "directory")}, MaxListing)

P_nested == JObj(<<KV(K_Data, JObj(<<KV(Lower(K_currentTermminal), JStr(T_010_CLT))>>))>>)
P_top_wins ==
    JObj(<<KV(K_currentTerminal, JStr(T_099_XYZ)),
           KV(K_Data, JObj(<<KV(K_currentTerminal, JStr(T_010_CLT))>>))>>)
P_provenance ==
    JObj(<<KV(K_file_date, JStr(T_099_XYZ)), KV(K_pro_folder, None),
           KV(K_source_path, JStr(T_099_XYZ)),
           KV(K_currentTerminal, JStr(T_010_CLT))>>)
P_empty == JObj(<<>>)

\* what fs.open + json.load may give for one listed object: it raises
\* (unreadable or not JSON), or it returns the parsed value
ReadOutcomes ==
    {[ok |-> FALSE, payload |-> None]} \cup
    {[ok |-> TRUE, payload |-> pl] :
        pl \in {P_nested, P_top_wins, P_provenance, P_empty, JList}}

Caps == {None} \cup {IntArg(n) : n \in 0..MaxCap}

\* the credential variables of the environment that are set, and whether
\* azure.storage.blob could be imported
Envs ==
    {e \in [connection_string : BOOLEAN, account_name : BOOLEAN,
            account_key : BOOLEAN, sas_token : BOOLEAN,
            sdk_available : BOOLEAN] :
        \/ e.connection_string /\ ~e.account_name /\ ~e.account_key /\ ~e.sas_token
        \/ ~e.connection_string /\ e.account_name /\ (~e.account_key \/ ~e.sas_token)
        \/ ~e.connection_string /\ ~e.account_name /\ ~e.account_key /\ ~e.sas_token}

RangeDates == {<<"2","0","2","5","-","0","8","-","0","1">>, <<"2","0","2","5","-","0","8","-","0","2">>}

Args ==
    [container : {Container}, root : Roots,
     start_date : RangeDates, end_date : RangeDates,
     terminal : {T_010_CLT},
     pro_limit : Caps, files_limit : Caps]


-----------------------------------------------------------------------------
(* What a listing held, kept in seen for the properties to refer to        *)

\* two characters that differ at most in case
SameLetter(a, b) ==
    a = b \/ \E i \in 1..26 : {a, b} = {UpperChars[i], LowerChars[i]}
SameIgnoringCase(a, b) ==
    Len(a) = Len(b) /\ \A i \in 1..Len(a) : SameLetter(a[i], b[i])

IsDirectoryEntry(e) == e.type = "directory"
\* a name whose last five characters are ".json" up to case
IsJsonFileEntry(e) ==
    LET n == e.name[Len(e.name)]
    IN  /\ e.type = "file"
        /\ Len(n) >= 5
        /\ SameIgnoringCase(SubSeq(n, Len(n) - 4, Len(n)), DotJson)

NamesOf(entries) == [i \in 1..Len(entries) |-> entries[i].name]

\* the directory entries of a listing, by full path
DirectoriesIn(listing) == NamesOf(SelectSeq(listing, IsDirectoryEntry))
\* the .json file entries of a listing, by full path
JsonFilesIn(listing) == NamesOf(SelectSeq(listing, IsJsonFileEntry))

-----------------------------------------------------------------------------
(* main and collect_events                                                 *)

NoCur == [date_dir_uri |-> <<>>, dir_date |-> None, pro_dir_uri |-> <<>>]
NoCall == [kind |-> "none"]
NoFile == [exists |-> FALSE, data_rows |-> 0]

AuthError == "ValueError: No valid Azure auth found"
RangeError == "ValueError: end_date must be on/after start_date"
PayloadError == "AttributeError: object has no attribute 'get'"

StartDt == DateutilParse(args.start_date).date
EndDt == DateutilParse(args.end_date).date

\* A variant of OutOfRange with the end bound exclusive; C5 does not hold
\* of it.
OutOfRangeEndExclusive(d) == DateLT(d, StartDt) \/ ~DateLT(d, EndDt)

\* "dir_date < start_dt or dir_date > end_dt"
OutOfRange(d) == DateLT(d, StartDt) \/ DateLT(EndDt, d)

\* A variant of TerminalMatches under which an absent value matches too;
\* C2 does not hold of it.
TerminalMatchesOrAbsent(curr, terminal) == curr = JStr(terminal) \/ curr = None

\* "curr == terminal", terminal a str
TerminalMatches(curr, terminal) == curr = JStr(terminal)

Idle ==
    /\ store_io = FALSE
    /\ date_dirs = <<>>
    /\ cur = NoCur
    /\ pro_dirs = <<>>
    /\ json_files = <<>>
    /\ total_files = 0
    /\ rows = <<>>
    /\ seen = NoCall
    /\ warnings = FALSE
    /\ exc = "none"
    /\ out_file = NoFile
    /\ exit_code = -1

\* The runs tried.  Each argument is tried at all its values with the
\* arguments it does not meet in the code at their usual ones: the
\* credentials with the range in order and reversed; the range; the root
\* with the SDK's availability; the PRO cap with the SDK's availability;
\* the file cap.
Runs ==
    {r \in Envs \X Args :
        LET e == r[1]
            a == r[2]
            creds == e.connection_string
            sdk == e.sdk_available
            root == a.root = <<>>
            range == a.start_date = <<"2","0","2","5","-","0","8","-","0","1">> /\ a.end_date = <<"2","0","2","5","-","0","8","-","0","2">>
            reversed == a.start_date = <<"2","0","2","5","-","0","8","-","0","2">> /\ a.end_date = <<"2","0","2","5","-","0","8","-","0","1">>
            pros == a.pro_limit = IntArg(MaxCap)
            files == a.files_limit = IntArg(MaxCap)
        IN  \/ sdk /\ root /\ pros /\ files /\ (range \/ reversed)
            \/ creds /\ sdk /\ root /\ pros /\ files
            \/ creds /\ range /\ files /\ pros
            \/ creds /\ range /\ files /\ root
            \/ creds /\ sdk /\ root /\ range /\ pros}

Init ==
    /\ pc = "main"
    /\ \E r \in Runs : env = r[1] /\ args = r[2]
    /\ Idle
    /\ fn_in = None
    /\ fn_out = None

\* A variant of CollectEventsBegin without the comparison of the two
\* dates; C8 does not hold of it.
CollectEventsBeginRangeUnchecked ==
    /\ pc = "main"
    /\ IF StorageOptions(env) = "ValueError"
       THEN pc' = "raised" /\ exc' = AuthError
       ELSE pc' = "ls_root" /\ exc' = exc
    /\ UNCHANGED <<env, args, store_io, date_dirs, cur, pro_dirs, json_files,
                   total_files, rows, seen, warnings, out_file, exit_code,
                   fn_in, fn_out>>

\* collect_events, lines 252-262: the filesystem is built from the
\* credentials, then the two dates are parsed and compared
CollectEventsBegin ==
    /\ pc = "main"
    /\ IF StorageOptions(env) = "ValueError"
       THEN pc' = "raised" /\ exc' = AuthError
       ELSE IF DateLT(EndDt, StartDt)
       THEN pc' = "raised" /\ exc' = RangeError
       ELSE pc' = "ls_root" /\ exc' = exc
    /\ UNCHANGED <<env, args, store_io, date_dirs, cur, pro_dirs, json_files,
                   total_files, rows, seen, warnings, out_file, exit_code,
                   fn_in, fn_out>>

\* line 265: sorted(_iter_date_dirs(fs, container, root), key=date)
ListDateDirs ==
    /\ pc = "ls_root"
    /\ \E shape \in RootShapes :
        LET listing == Under(AbfsUri(args.container, args.root), shape)
        IN  /\ date_dirs' = SortByDate(IterDateDirs(listing))
            /\ seen' = NoCall
    /\ store_io' = TRUE
    /\ warnings' = FALSE
    /\ pc' = "dates"
    /\ UNCHANGED <<env, args, cur, pro_dirs, json_files, total_files, rows,
                   exc, out_file, exit_code, fn_in, fn_out>>

\* lines 266-267: a date folder outside [start, end] is passed over
SkipDate ==
    /\ pc = "dates"
    /\ date_dirs # <<>>
    /\ OutOfRange(Head(date_dirs).date)
    /\ date_dirs' = Tail(date_dirs)
    /\ seen' = [kind |-> "skip", date |-> Head(date_dirs).date]
    /\ warnings' = FALSE
    /\ UNCHANGED <<pc, env, args, store_io, cur, pro_dirs, json_files,
                   total_files, rows, exc, out_file, exit_code, fn_in, fn_out>>

\* lines 269-274: the PRO folders of the next date folder in range.  The
\* store holds shape under the date folder itself and other under the
\* directory the listing addresses; they are one directory when the paths
\* are the same.
ListProDirs ==
    /\ pc = "dates"
    /\ date_dirs # <<>>
    /\ ~OutOfRange(Head(date_dirs).date)
    /\ LET uri == Head(date_dirs).uri
           addressed == ListedDateDir(args.container, uri)
           sdk_path == env.sdk_available /\ LimitActive(args.pro_limit)
       IN  \E shape \in ProShapes :
           \E other \in IF addressed = uri THEN {shape} ELSE ProShapes :
           \E sdk_raises \in IF sdk_path THEN BOOLEAN ELSE {FALSE} :
             /\ pro_dirs' = GetProDirsOptimized(env, args.container,
                                                Under(addressed, other),
                                                args.pro_limit, sdk_raises)
             /\ seen' = [kind |-> "pro_ls",
                         dirs |-> DirectoriesIn(Under(uri, shape)),
                         generic |-> GetProDirs(Under(uri, shape), args.pro_limit)]
             /\ warnings' = sdk_raises
             /\ cur' = [date_dir_uri |-> uri, dir_date |-> Head(date_dirs).date,
                        pro_dir_uri |-> <<>>]
    /\ date_dirs' = Tail(date_dirs)
    /\ store_io' = TRUE
    /\ pc' = "pros"
    /\ UNCHANGED <<env, args, json_files, total_files, rows, exc, out_file,
                   exit_code, fn_in, fn_out>>

\* lines 276-280: the JSON files of the next PRO folder
ListJsonFiles ==
    /\ pc = "pros"
    /\ pro_dirs # <<>>
    /\ \E shape \in FileShapes :
        LET listing == Under(Head(pro_dirs), shape)
            files == GetJsonFiles(listing, args.files_limit)
        IN  /\ total_files + Len(files) <= MaxObjects
            /\ json_files' = files
            /\ total_files' = total_files + Len(files)
            /\ seen' = [kind |-> "file_ls", json |-> JsonFilesIn(listing)]
    /\ cur' = [cur EXCEPT !.pro_dir_uri = Head(pro_dirs)]
    /\ pro_dirs' = Tail(pro_dirs)
    /\ store_io' = TRUE
    /\ warnings' = FALSE
    /\ pc' = "files"
    /\ UNCHANGED <<env, args, date_dirs, rows, exc, out_file, exit_code,
                   fn_in, fn_out>>

\* lines 285-300: one JSON object is opened, parsed, filtered and recorded
ReadJsonFile ==
    /\ pc = "files"
    /\ json_files # <<>>
    /\ \E outcome \in ReadOutcomes :
        LET json_path == Head(json_files)
            payload == outcome.payload
        IN  /\ seen' = [kind |-> "read", path |-> json_path, outcome |-> outcome]
            /\ IF ~outcome.ok
               THEN /\ warnings' = TRUE
                    /\ UNCHANGED <<pc, rows, exc>>
               ELSE IF ~IsDict(payload)
               THEN /\ pc' = "raised"
                    /\ exc' = PayloadError
                    /\ UNCHANGED <<rows, warnings>>
               ELSE /\ rows' =
                        IF TerminalMatches(ExtractCurrentTerminal(payload), args.terminal)
                        THEN Append(rows, MakeRecord(payload, cur.dir_date,
                                                     cur.pro_dir_uri, json_path))
                        ELSE rows
                    /\ warnings' = FALSE
                    /\ UNCHANGED <<pc, exc>>
    /\ json_files' = Tail(json_files)
    /\ store_io' = TRUE
    /\ UNCHANGED <<env, args, date_dirs, cur, pro_dirs, total_files, out_file,
                   exit_code, fn_in, fn_out>>

\* the loop over json_files is exhausted
FilesDone ==
    /\ pc = "files"
    /\ json_files = <<>>
    /\ pc' = "pros"
    /\ seen' = NoCall
    /\ warnings' = FALSE
    /\ cur' = [cur EXCEPT !.pro_dir_uri = <<>>]
    /\ UNCHANGED <<env, args, store_io, date_dirs, pro_dirs, json_files,
                   total_files, rows, exc, out_file, exit_code, fn_in, fn_out>>

\* the loop over pro_dirs is exhausted
ProsDone ==
    /\ pc = "pros"
    /\ pro_dirs = <<>>
    /\ pc' = "dates"
    /\ seen' = NoCall
    /\ warnings' = FALSE
    /\ cur' = NoCur
    /\ UNCHANGED <<env, args, store_io, date_dirs, pro_dirs, json_files,
                   total_files, rows, exc, out_file, exit_code, fn_in, fn_out>>

\* lines 302-303: the loop over the date folders is exhausted, df is returned
ReturnFrame ==
    /\ pc = "dates"
    /\ date_dirs = <<>>
    /\ pc' = "export"
    /\ seen' = NoCall
    /\ warnings' = FALSE
    /\ UNCHANGED <<env, args, store_io, date_dirs, cur, pro_dirs, json_files,
                   total_files, rows, exc, out_file, exit_code, fn_in, fn_out>>

\* A variant of ExportCsv that writes no file when no record matched; C6
\* does not hold of it.
ExportCsvUnlessEmpty ==
    /\ pc = "export"
    /\ out_file' = IF rows = <<>> THEN out_file
                   ELSE [exists |-> TRUE, data_rows |-> Len(rows)]
    /\ warnings' = (rows = <<>>)
    /\ exit_code' = 0
    /\ pc' = "exited"
    /\ UNCHANGED <<env, args, store_io, date_dirs, cur, pro_dirs, json_files,
                   total_files, rows, seen, exc, fn_in, fn_out>>

\* main, lines 348-360: the CSV is written, empty or not, and 0 returned
ExportCsv ==
    /\ pc = "export"
    /\ out_file' = [exists |-> TRUE, data_rows |-> Len(rows)]
    /\ warnings' = (rows = <<>>)
    /\ exit_code' = 0
    /\ pc' = "exited"
    /\ UNCHANGED <<env, args, store_io, date_dirs, cur, pro_dirs, json_files,
                   total_files, rows, seen, exc, fn_in, fn_out>>

\* an exception main does not catch ends the process with status 1
Uncaught ==
    /\ pc = "raised"
    /\ exit_code' = 1
    /\ pc' = "exited"
    /\ UNCHANGED <<env, args, store_io, date_dirs, cur, pro_dirs, json_files,
                   total_files, rows, seen, warnings, exc, out_file,
                   fn_in, fn_out>>

Next ==
    \/ CollectEventsBegin
    \/ ListDateDirs
    \/ SkipDate
    \/ ListProDirs
    \/ ListJsonFiles
    \/ ReadJsonFile
    \/ FilesDone
    \/ ProsDone
    \/ ReturnFrame
    \/ ExportCsv
    \/ Uncaught

Spec == Init /\ [][Next]_vars


-----------------------------------------------------------------------------
(* The helpers applied on their own, over wider inputs than a run reads    *)

MaxTopKeys == 2     \* keys of a payload
MaxDataKeys == 1    \* keys of its "Data" object
MaxMonthField == 13 \* largest month field of a folder name
MaxDayField == 32   \* largest day field of a folder name

Scalars == {JStr(T_010_CLT), JStr(T_099_XYZ), None}

SpellingPool ==
    {K_currentTerminal, K_currentTermminal, Lower(K_currentTermminal),
     <<"C","u","r","r","e","n","t","T","e","r","m","i","n","a","l">>, <<"C","U","R","R","E","N","T","T","E","R","M","I","N","A","L">>}

\* the objects with at most n keys of pool, each with one of values, in
\* every insertion order
ObjectsOver(pool, values, n) ==
    {JObj([i \in 1..Len(ks) |-> KV(ks[i], vs[i])]) :
        <<ks, vs>> \in {p \in SeqsOver(pool, n) \X UNION {[1..k -> values] : k \in 0..n} :
                          Len(p[1]) = Len(p[2])}}

DataValues == Scalars \cup ObjectsOver(SpellingPool \ {<<"C","u","r","r","e","n","t","T","e","r","m","i","n","a","l">>}, Scalars, MaxDataKeys)

\* a payload: at most MaxTopKeys keys, "Data" possibly one of them
Payloads ==
    LET plain == ObjectsOver(SpellingPool \cup {<<"s","t","a","t","u","s">>}, Scalars, MaxTopKeys)
    IN  plain \cup
        {JObj(SubSeq(o.kv, 1, at) \o <<KV(K_Data, dv)>> \o SubSeq(o.kv, at + 1, Len(o.kv))) :
            <<o, at, dv>> \in {t \in plain \X (0..MaxTopKeys) \X DataValues :
                                 Len(t[1].kv) < MaxTopKeys /\ t[2] <= Len(t[1].kv)}}

DefaultEnv ==
    [connection_string |-> TRUE, account_name |-> FALSE, account_key |-> FALSE,
     sas_token |-> FALSE, sdk_available |-> TRUE]
DefaultArgs ==
    [container |-> Container, root |-> <<>>,
     start_date |-> <<"2","0","2","5","-","0","8","-","0","1">>, end_date |-> <<"2","0","2","5","-","0","8","-","0","2">>, terminal |-> T_010_CLT,
     pro_limit |-> IntArg(MaxCap), files_limit |-> IntArg(MaxCap)]

InitExtract ==
    /\ pc = "extract"
    /\ env = DefaultEnv
    /\ args = DefaultArgs
    /\ Idle
    /\ fn_in \in Payloads
    /\ fn_out = None

\* curr = _extract_current_terminal(payload)
ApplyExtract ==
    /\ pc = "extract"
    /\ fn_out' = ExtractCurrentTerminal(fn_in)
    /\ pc' = "extracted"
    /\ UNCHANGED <<env, args, store_io, date_dirs, cur, pro_dirs, json_files,
                   total_files, rows, seen, warnings, exc, out_file, exit_code,
                   fn_in>>

NextExtract == ApplyExtract

SpecExtract == InitExtract /\ [][NextExtract]_vars

\* folder names: a year field, a month field and a day field, zero padded
\* or not, joined by "-" or another separator, with or without a tail
YearFields == {ZeroPad(y, 4) : y \in {0, 25, 1900, 2000, 2023, 2024, 20245}} \cup {ZeroPad(202, 3)}
MonthFields == {ZeroPad(m, w) : m \in 0..MaxMonthField, w \in 1..2} \cup {ZeroPad(1, 3)}
DayFields == {ZeroPad(d, w) : d \in 0..MaxDayField, w \in 1..2} \cup {ZeroPad(1, 3)}
FolderNames ==
    {y \o sep \o m \o sep \o d \o tail :
        y \in YearFields, m \in MonthFields, d \in DayFields,
        sep \in {<<"-">>, <<"_">>}, tail \in {<<>>, <<"x">>, <<"\n">>}}

InitScan ==
    /\ pc = "scan"
    /\ env = DefaultEnv
    /\ args = DefaultArgs
    /\ Idle
    /\ fn_in \in {Entry(<<Container, n>>, ty) : n \in FolderNames, ty \in {"directory", "file"}}
    /\ fn_out = <<>>

\* list(_iter_date_dirs(...)) over a listing of the one entry
ApplyIterDateDirs ==
    /\ pc = "scan"
    /\ fn_out' = IterDateDirs(<<fn_in>>)
    /\ pc' = "scanned"
    /\ UNCHANGED <<env, args, store_io, date_dirs, cur, pro_dirs, json_files,
                   total_files, rows, seen, warnings, exc, out_file, exit_code,
                   fn_in>>

NextScan == ApplyIterDateDirs

SpecScan == InitScan /\ [][NextScan]_vars


-----------------------------------------------------------------------------
(* Properties                                                              *)

\* the values an object offers for the terminal: those under the exact
\* canonical key, else under the exact misspelt key, else under a key that
\* is the canonical one up to case, else the misspelt one up to case
Offered(o) ==
    LET exact(k) == {o.kv[i].v : i \in {j \in 1..Len(o.kv) : o.kv[j].k = k}}
        loose(k) == {o.kv[i].v :
                        i \in {j \in 1..Len(o.kv) : SameIgnoringCase(o.kv[j].k, k)}}
    IN  IF exact(K_currentTerminal) # {} THEN exact(K_currentTerminal)
        ELSE IF exact(K_currentTermminal) # {} THEN exact(K_currentTermminal)
        ELSE IF loose(K_currentTerminal) # {} THEN loose(K_currentTerminal)
        ELSE loose(K_currentTermminal)

NestedData(payload) ==
    {payload.kv[i].v :
        i \in {j \in 1..Len(payload.kv) :
                 payload.kv[j].k = K_Data /\ payload.kv[j].v.t = "obj"}}

\* C1: the extracted value is decided by the top-level payload when it has
\* one of the two keys (exact spellings before case-insensitive ones,
\* canonical before misspelt), else by the nested "Data" object in the same
\* way, and is None when neither has a key.
C1_ExtractionOrder ==
    pc = "extracted" =>
        IF Offered(fn_in) # {} THEN fn_out \in Offered(fn_in)
        ELSE IF \E d \in NestedData(fn_in) : Offered(d) # {}
        THEN \E d \in NestedData(fn_in) : fn_out \in Offered(d)
        ELSE fn_out = None

\* C1 witness: the top-level value has won over the nested one.
C1_TopLevelWins ==
    pc = "extracted" /\ fn_in = P_top_wins /\ fn_out = JStr(T_099_XYZ)

ReadMatches(outcome) ==
    /\ outcome.ok
    /\ outcome.payload.t = "obj"
    /\ ExtractCurrentTerminal(outcome.payload) = JStr(args.terminal)

\* C2: reading one listed object appends exactly one record, kept behind
\* the records already there, if and only if the object was read and parsed
\* and its extracted terminal equals the target; otherwise the records are
\* left as they were.
C2_RecordIffMatch ==
    [][(pc = "files" /\ json_files # <<>>) =>
        IF ReadMatches(seen'.outcome)
        THEN /\ Len(rows') = Len(rows) + 1
             /\ SubSeq(rows', 1, Len(rows)) = rows
             /\ rows'[Len(rows')][K_source_path] = JPath(Head(json_files))
        ELSE rows' = rows]_vars

\* C2 witness: the nested, misspelt, lower-case key has matched and the
\* object read last is the last record.
C2_NestedMisspeltMatch ==
    /\ seen.kind = "read"
    /\ seen.outcome.payload = P_nested
    /\ rows # <<>>
    /\ rows[Len(rows)][K_source_path] = JPath(seen.path)

JustAppended == seen.kind = "read" /\ ReadMatches(seen.outcome)

\* C3: every record carries the three provenance fields, none of them null,
\* and they are the traversal's: the ISO form of the date the date folder
\* of the opened path parses to, the PRO folder segment of that path, and
\* the path itself; for the record just appended they are those of the date
\* folder, the PRO folder and the object being processed.
C3_ProvenanceFromTraversal ==
    /\ \A i \in 1..Len(rows) :
        LET rec == rows[i]
        IN  /\ {K_file_date, K_pro_folder, K_source_path} \subseteq DOMAIN rec
            /\ rec[K_source_path].t = "path"
            /\ LET path == rec[K_source_path].p
               IN  /\ Len(path) >= 3
                   /\ rec[K_pro_folder] = JStr(path[Len(path) - 1])
                   /\ rec[K_file_date] = JStr(IsoFormat(ParseDateDir(path[Len(path) - 2])))
    /\ JustAppended =>
        LET rec == rows[Len(rows)]
        IN  /\ rec[K_file_date] = JStr(IsoFormat(cur.dir_date))
            /\ rec[K_pro_folder] = JStr(Last(cur.pro_dir_uri))
            /\ rec[K_source_path] = JPath(seen.path)

\* C3 witness: a payload that has keys of its own named like the provenance
\* fields was recorded from the folder 2025-8-1 with _file_date 2025-08-01.
C3_PayloadKeysOverridden ==
    /\ JustAppended
    /\ seen.outcome.payload = P_provenance
    /\ Last(cur.date_dir_uri) = <<"2","0","2","5","-","8","-","1">>
    /\ rows[Len(rows)][K_file_date] = JStr(<<"2","0","2","5","-","0","8","-","0","1">>)

\* the first min(cap, n) of the n names, all n when cap is None or 0
Capped(names, cap) ==
    IF cap # None /\ cap.n > 0 /\ cap.n < Len(names)
    THEN SubSeq(names, 1, cap.n)
    ELSE names

\* C4: the PRO folders visited under a date folder are the first
\* min(cap, n) directory entries of that folder in listing order (all of
\* them when the cap is 0 or None), and the JSON files read under a PRO
\* folder are capped in the same way over its .json file entries.
C4_CapSemantics ==
    /\ seen.kind = "pro_ls" => pro_dirs = Capped(seen.dirs, args.pro_limit)
    /\ seen.kind = "file_ls" => json_files = Capped(seen.json, args.files_limit)

\* C4 at the container root, where the date folder is the directory listed
C4_CapSemanticsAtContainerRoot == args.root = <<>> => C4_CapSemantics

RowDate(rec) == DateutilParse(rec[K_file_date].s).date

\* C5: a date folder is processed when its date lies in [start, end] and
\* passed over when it does not, the folders are taken in ascending date
\* order, and so the _file_date values of the records never decrease and
\* lie in [start, end].
C5_DateRangeAndOrder ==
    /\ pc \in {"pros", "files"} =>
        /\ ~DateLT(cur.dir_date, StartDt) /\ ~DateLT(EndDt, cur.dir_date)
        /\ \A i \in 1..Len(date_dirs) : ~DateLT(date_dirs[i].date, cur.dir_date)
    /\ seen.kind = "skip" => DateLT(seen.date, StartDt) \/ DateLT(EndDt, seen.date)
    /\ \A i, j \in 1..Len(date_dirs) : i < j => ~DateLT(date_dirs[j].date, date_dirs[i].date)
    /\ \A i \in 1..Len(rows) :
        /\ ~DateLT(RowDate(rows[i]), StartDt) /\ ~DateLT(EndDt, RowDate(rows[i]))
        /\ \A j \in 1..Len(rows) : i < j => ~DateLT(RowDate(rows[j]), RowDate(rows[i]))

\* C5 witness: records of two date folders, the one of the earlier date
\* first and the one of the zero padded folder 2025-08-02 last.
C5_TwoDatesInOrder ==
    /\ Len(rows) = 2
    /\ DateLT(RowDate(rows[1]), RowDate(rows[2]))
    /\ rows[2][K_source_path].p[2] = <<"2","0","2","5","-","0","8","-","0","2">>

\* C6: a run that ended without an exception has written the output file
\* with one data row per record and returned 0, also when no record matched;
\* a run whose traversal completed ends in no other way.
C6_ExportAlwaysWritten ==
    /\ pc = "exited" /\ exc = "none" =>
        /\ out_file.exists
        /\ out_file.data_rows = Len(rows)
        /\ exit_code = 0
    /\ pc = "export" => exc = "none" /\ ENABLED ExportCsv

\* C6 witness: objects were listed and read, none matched, and the run
\* ended with an empty file and exit code 0.
C6_EmptyExport ==
    /\ pc = "exited"
    /\ total_files > 0
    /\ rows = <<>>
    /\ out_file = [exists |-> TRUE, data_rows |-> 0]
    /\ exit_code = 0

\* C7: a run is ended only by the configuration error or the range error.
C7_OnlyConfigOrRangeAborts == exc \in {"none", AuthError, RangeError}

EndBeforeStart == DateLT(EndDt, StartDt)
CredentialsSatisfiable ==
    \/ env.connection_string
    \/ env.account_name /\ (env.account_key \/ env.sas_token)

\* C8 as stated: with end < start the range error is raised, before any
\* store call, whatever the credentials are.
C8_RangeErrorWhateverCredentials ==
    (EndBeforeStart /\ pc # "main") => (exc = RangeError /\ ~store_io)

\* C8 amended: with end < start the run is ended before any store call and
\* any traversal step, by the range error when a credential shape is
\* satisfiable and by the configuration error when none is.
C8_AbortBeforeStoreIO ==
    (EndBeforeStart /\ pc # "main") =>
        /\ ~store_io
        /\ date_dirs = <<>> /\ rows = <<>> /\ total_files = 0
        /\ pc \in {"raised", "exited"}
        /\ exc = IF CredentialsSatisfiable THEN RangeError ELSE AuthError

\* C8 witness: the range error was raised with working credentials.
C8_RangeErrorRaised ==
    EndBeforeStart /\ CredentialsSatisfiable /\ pc = "raised" /\ exc = RangeError

\* C9: what the optimized listing hands to the traversal is what the
\* generic listing of the date folder gives.
C9_ListingsInterchangeable ==
    seen.kind = "pro_ls" => pro_dirs = seen.generic

\* C10: a directory whose name matches the pattern yields the date made of
\* its three numeric fields in order when that is a calendar date and
\* nothing when it is not; any other entry yields nothing.
C10_DateFolderParsing ==
    pc = "scanned" =>
        LET name == Last(fn_in.name)
            body == BeforeFinalNewline(name)
        IN  IF fn_in.type = "directory" /\ DateDirReMatch(name)
            THEN \E mlen \in 1..2, dlen \in 1..2 :
                    /\ DateDirShape(body, mlen, dlen)
                    /\ LET y == IntOf(SubSeq(body, 1, 4))
                           m == IntOf(SubSeq(body, 6, 5 + mlen))
                           d == IntOf(SubSeq(body, 7 + mlen, 6 + mlen + dlen))
                       IN  IF IsValidDate(y, m, d)
                           THEN fn_out = <<[uri |-> fn_in.name, date |-> Date(y, m, d)]>>
                           ELSE fn_out = <<>>
            ELSE fn_out = <<>>

\* C10 witness: the folder 2024-2-29 has yielded 29 February 2024.
C10_LeapDayParsed ==
    /\ pc = "scanned"
    /\ Last(fn_in.name) = <<"2","0","2","4","-","2","-","2","9">>
    /\ fn_out = <<[uri |-> fn_in.name, date |-> Date(2024, 2, 29)]>>


====
